---- MODULE Spec2Model ----
(***************************************************************************)
(* Model of the OCR result reconciliation of the video application:        *)
(* calculate_text_similarity and merge_ocr_results of src/video/utils.py,  *)
(* and of the processing gate of video_process of src/video/views.py.      *)
(*                                                                         *)
(* Each specification runs one of the three: Spec, SpecOutOfContract and   *)
(* SpecReordered a call of merge_ocr_results, SpecSimilarity a call of     *)
(* calculate_text_similarity, SpecVideo the POST requests for one video    *)
(* and SpecVideoSerial those requests handled one after the other.         *)
(* The variables of the other two stay at their idle values.               *)
(*                                                                         *)
(* A text is a sequence of one-character strings.  Timestamps and the time *)
(* window are integers (a unit of time); a similarity and the similarity   *)
(* threshold are exact fractions [num, den], compared by cross             *)
(* multiplication.  The thresholds drawn are dyadic, and the timestamps    *)
(* integral, so that the floating point comparisons of the code agree with *)
(* the exact ones of the model.                                            *)
(***************************************************************************)
EXTENDS Integers, Sequences, FiniteSets, TLC

VARIABLES
    ocr_results,            \* argument: the list of observations, in caller order
    similarity_threshold,   \* argument: fraction [num, den]
    time_window,            \* argument
    sorted_results,         \* local: sorted(ocr_results, key=timestamp)
    idx,                    \* position of the for loop in sorted_results (1-based)
    merged_results,         \* local, and the value returned
    current_group,          \* local: <<>> is None, <<g>> is the open group g
    text,                   \* local: the stripped text of the current result
    timestamp,              \* local: the timestamp of the current result
    time_diff,              \* local: assigned in the else branch only
    similarity,             \* local: assigned in the else branch only
    pc                      \* "call", "loop" or "done"

\* calculate_text_similarity
VARIABLES
    sim_text1,              \* argument text1
    sim_text2,              \* argument text2
    sim_max_len,            \* local max_len
    sim_distance,           \* local distance
    sim_return,             \* the double returned
    sim_pc                  \* "idle", "call" or "done"

\* video_process, POST
VARIABLES
    db_video,               \* the row of the video in the database
    req_pc,                 \* per request: its position in the view
    req_video,              \* per request: the model instance it loaded
    req_response,           \* per request: the HTTP status it answered with
    now                     \* the clock read by timezone.now()

mergeVars == <<ocr_results, similarity_threshold, time_window, sorted_results,
               idx, merged_results, current_group, text, timestamp, time_diff,
               similarity, pc>>

simVars == <<sim_text1, sim_text2, sim_max_len, sim_distance, sim_return, sim_pc>>

videoVars == <<db_video, req_pc, req_video, req_response, now>>

vars == <<mergeVars, simVars, videoVars>>

-----------------------------------------------------------------------------
(* Bounds and input sets *)

MaxObs == 3

Whitespace == {" ", "\t", "\n"}

Texts ==
    { <<>>,
      <<" ">>,
      <<" ", "a", "b", " ">>,
      <<"a", "x">>,
      <<"a", "b", "c">> }

Timestamps == { 0, 1, 2 }

Rat(n, d) == [num |-> n, den |-> d]

Thresholds == { Rat(1, 2), Rat(1, 1) }

TimeWindows == { 1, 2 }

Observations == [text : Texts, timestamp : Timestamps]

RECURSIVE SeqsUpTo(_, _)
SeqsUpTo(S, n) ==
    IF n = 0 THEN { <<>> }
    ELSE LET shorter == SeqsUpTo(S, n - 1)
         IN  shorter \cup { Append(s, x) : s \in { t \in shorter : Len(t) = n - 1 }, x \in S }

-----------------------------------------------------------------------------
(* Helpers of the Python runtime *)

\* max() that answers its first argument
Max_First(a, b) == a

\* min() in the place of max()
Max_Smaller(a, b) == IF a <= b THEN a ELSE b

Max(a, b) == IF a >= b THEN a ELSE b

Min3(a, b, c) ==
    IF a <= b /\ a <= c THEN a ELSE IF b <= c THEN b ELSE c

Tail1(s) == SubSeq(s, 2, Len(s))

Front(s) == SubSeq(s, 1, Len(s) - 1)

\* str.strip(): leading and trailing whitespace removed
RECURSIVE LStrip(_)
LStrip(s) ==
    IF s # <<>> /\ s[1] \in Whitespace THEN LStrip(Tail1(s)) ELSE s

RECURSIVE RStrip(_)
RStrip(s) ==
    IF s # <<>> /\ s[Len(s)] \in Whitespace THEN RStrip(Front(s)) ELSE s

\* a strip() that was left out
Strip_Missing(s) == s

\* lstrip() in the place of strip()
Strip_LeadingOnly(s) == LStrip(s)

Strip(s) == RStrip(LStrip(s))

\* a distance in which a substitution costs 2 (a deletion and an insertion)
RECURSIVE levenshtein_distance_NoSubstitution(_, _)
levenshtein_distance_NoSubstitution(a, b) ==
    IF a = <<>> THEN Len(b)
    ELSE IF b = <<>> THEN Len(a)
    ELSE IF a[1] = b[1] THEN levenshtein_distance_NoSubstitution(Tail1(a), Tail1(b))
    ELSE 1 + Min3(levenshtein_distance_NoSubstitution(Tail1(a), b),
                  levenshtein_distance_NoSubstitution(a, Tail1(b)),
                  1 + levenshtein_distance_NoSubstitution(Tail1(a), Tail1(b)))

\* Levenshtein.distance: insertions, deletions and substitutions, each of cost 1
RECURSIVE levenshtein_distance(_, _)
levenshtein_distance(a, b) ==
    IF a = <<>> THEN Len(b)
    ELSE IF b = <<>> THEN Len(a)
    ELSE IF a[1] = b[1] THEN levenshtein_distance(Tail1(a), Tail1(b))
    ELSE 1 + Min3(levenshtein_distance(Tail1(a), b),
                  levenshtein_distance(a, Tail1(b)),
                  levenshtein_distance(Tail1(a), Tail1(b)))

\* sorted(list, key=timestamp): stable, ascending
RECURSIVE InsertByTimestamp(_, _)
InsertByTimestamp(x, s) ==
    IF s = <<>> THEN <<x>>
    ELSE IF s[Len(s)].timestamp <= x.timestamp THEN Append(s, x)
    ELSE Append(InsertByTimestamp(x, Front(s)), s[Len(s)])

\* a sort that was left out: the scan runs in caller order
SortedByTimestamp_Missing(s) == s

\* a sort with reverse=True
RECURSIVE SortedByTimestamp_Descending(_)
SortedByTimestamp_Descending(s) ==
    IF s = <<>> THEN <<>>
    ELSE SortedByTimestamp_Descending(
             SelectSeq(s, LAMBDA o : o.timestamp > s[1].timestamp)) \o
         SelectSeq(s, LAMBDA o : o.timestamp = s[1].timestamp) \o
         SortedByTimestamp_Descending(
             SelectSeq(s, LAMBDA o : o.timestamp < s[1].timestamp))

RECURSIVE SortedByTimestamp(_)
SortedByTimestamp(s) ==
    IF s = <<>> THEN <<>>
    ELSE InsertByTimestamp(s[Len(s)], SortedByTimestamp(Front(s)))

\* fraction comparison a >= b (denominators are positive)
RatGeq(a, b) == a.num * b.den >= b.num * a.den

RatEq(a, b) == a.num * b.den = b.num * a.den

-----------------------------------------------------------------------------
(* The components a specification does not run *)

\* no call of merge_ocr_results is modelled
MergeIdle ==
    /\ ocr_results = <<>>
    /\ similarity_threshold = Rat(0, 1)
    /\ time_window = 0
    /\ sorted_results = <<>>
    /\ idx = 1
    /\ merged_results = <<>>
    /\ current_group = <<>>
    /\ text = <<>>
    /\ timestamp = 0
    /\ time_diff = 0
    /\ similarity = Rat(0, 1)
    /\ pc = "idle"

\* no call of calculate_text_similarity is modelled
SimilarityIdle ==
    /\ sim_text1 = <<>>
    /\ sim_text2 = <<>>
    /\ sim_max_len = 0
    /\ sim_distance = 0
    /\ sim_return = <<>>
    /\ sim_pc = "idle"

\* no request for a video is modelled
VideoIdle ==
    /\ db_video = <<>>
    /\ req_pc = <<>>
    /\ req_video = <<>>
    /\ req_response = <<>>
    /\ now = 0

-----------------------------------------------------------------------------
(* Python floats: IEEE 754 doubles, round to nearest, ties to even.         *)
(* A double is [neg, exp, bits]: zero has no bits; otherwise bits are the   *)
(* Precision bits of the significand, the first of them 1, and the value is *)
(* (0.b1 b2 ... b53 in binary) * 2^exp, negated when neg.                   *)

Precision == 53

Zeros(n) == [i \in 1 .. n |-> 0]

DoubleZero == [neg |-> FALSE, exp |-> 0, bits |-> <<>>]

DoubleOne == [neg |-> FALSE, exp |-> 1, bits |-> <<1>> \o Zeros(Precision - 1)]

\* bits + 1 as a binary number, one bit longer: the carry comes first
RECURSIVE Increment(_)
Increment(bits) ==
    IF bits = <<>> THEN <<1>>
    ELSE IF bits[Len(bits)] = 0 THEN <<0>> \o Append(Front(bits), 1)
    ELSE Append(Increment(Front(bits)), 0)

RECURSIVE LeadingZeros(_)
LeadingZeros(bits) ==
    IF bits = <<>> \/ bits[1] = 1 THEN 0 ELSE 1 + LeadingZeros(Tail1(bits))

\* the double nearest to (0.bits in binary, plus a non-zero rest below the
\* last bit when sticky) * 2^exp; bits[1] = 1
RoundToDouble(neg, exp, bits, sticky) ==
    IF Len(bits) <= Precision
    THEN [neg |-> neg, exp |-> exp, bits |-> bits \o Zeros(Precision - Len(bits))]
    ELSE LET kept  == SubSeq(bits, 1, Precision)
             guard == bits[Precision + 1]
             rest  == sticky \/ \E i \in (Precision + 2) .. Len(bits) : bits[i] = 1
             up    == guard = 1 /\ (rest \/ kept[Precision] = 1)
             inc   == Increment(kept)
         IN  IF ~up THEN [neg |-> neg, exp |-> exp, bits |-> kept]
             ELSE IF inc[1] = 0 THEN [neg |-> neg, exp |-> exp, bits |-> Tail1(inc)]
             ELSE [neg |-> neg, exp |-> exp + 1,
                   bits |-> <<1>> \o Zeros(Precision - 1)]

\* n / d brought to d/2 <= n < d, with the power of two taken out
RECURSIVE Normalised(_, _, _)
Normalised(n, d, e) ==
    IF n >= d THEN Normalised(n, 2 * d, e + 1)
    ELSE IF 2 * n < d THEN Normalised(2 * n, d, e - 1)
    ELSE [n |-> n, d |-> d, exp |-> e]

\* the first k bits of r / d after the binary point (r < d), followed by the
\* remainder of the division
RECURSIVE QuotientBits(_, _, _)
QuotientBits(r, d, k) ==
    IF k = 0 THEN <<r>>
    ELSE LET b == IF 2 * r >= d THEN 1 ELSE 0
         IN  <<b>> \o QuotientBits(2 * r - b * d, d, k - 1)

\* n / d on two non-negative integers, d > 0: true division, correctly rounded
FloatDiv(n, d) ==
    IF n = 0 THEN DoubleZero
    ELSE LET f == Normalised(n, d, 0)
             q == QuotientBits(f.n, f.d, Precision + 1)
         IN  RoundToDouble(FALSE, f.exp, Front(q), q[Len(q)] # 0)

RECURSIVE BitsValue(_)
BitsValue(bits) ==
    IF bits = <<>> THEN 0 ELSE 2 * BitsValue(Front(bits)) + bits[Len(bits)]

RECURSIVE ValueBits(_, _)
ValueBits(n, width) ==
    IF width = 0 THEN <<>> ELSE Append(ValueBits(n \div 2, width - 1), n % 2)

\* 1.0 - x for a double x >= 0
OneMinus(x) ==
    IF x.bits = <<>> THEN DoubleOne
    ELSE IF x.exp <= 0
    THEN \* x < 1: the complement of x in fixed point, exact before rounding
         LET fixed    == Zeros(0 - x.exp) \o x.bits
             inverted == [i \in 1 .. Len(fixed) |-> 1 - fixed[i]]
             diff     == Tail1(Increment(inverted))
             z        == LeadingZeros(diff)
         IN  RoundToDouble(FALSE, 0 - z, SubSeq(diff, z + 1, Len(diff)), FALSE)
    ELSE \* x >= 1: -(x - 1), exact
         LET whole == BitsValue(SubSeq(x.bits, 1, x.exp)) - 1
             diff  == ValueBits(whole, x.exp) \o SubSeq(x.bits, x.exp + 1, Precision)
             z     == LeadingZeros(diff)
         IN  IF z = Len(diff) THEN DoubleZero
             ELSE RoundToDouble(TRUE, x.exp - z, SubSeq(diff, z + 1, Len(diff)), FALSE)

\* a < b on bit sequences of one length, as binary numbers
RECURSIVE BitsLess(_, _)
BitsLess(a, b) ==
    IF a = <<>> THEN FALSE
    ELSE IF a[1] # b[1] THEN a[1] < b[1]
    ELSE BitsLess(Tail1(a), Tail1(b))

\* a < b on doubles that are not negative
MagnitudeLess(a, b) ==
    IF b.bits = <<>> THEN FALSE
    ELSE IF a.bits = <<>> THEN TRUE
    ELSE IF a.exp # b.exp THEN a.exp < b.exp
    ELSE BitsLess(a.bits, b.bits)

\* a < b on doubles
DoubleLess(a, b) ==
    IF a.neg /\ b.neg THEN MagnitudeLess(b, a)
    ELSE IF a.neg THEN TRUE
    ELSE IF b.neg THEN FALSE
    ELSE MagnitudeLess(a, b)

\* a >= b on doubles
DoubleGeq(a, b) == ~DoubleLess(a, b)

-----------------------------------------------------------------------------
(* calculate_text_similarity *)

MaxLen == 2

SimAlphabet == { "a", "b" }

Hello == <<"H", "e", "l", "l", "o">>

Hallo == <<"H", "a", "l", "l", "o">>

World == <<"W", "o", "r", "l", "d">>

\* the texts of the docstring and of the tests, and every short text
SimTexts == SeqsUpTo(SimAlphabet, MaxLen) \cup { Hello, Hallo, World }

\* the similarity as an exact fraction, before any rounding: the value the
\* scan of merge_ocr_results is modelled with
calculate_text_similarity(text1, text2) ==
    IF text1 = <<>> /\ text2 = <<>> THEN Rat(1, 1)
    ELSE IF text1 = <<>> \/ text2 = <<>> THEN Rat(0, 1)
    ELSE LET max_len == Max(Len(text1), Len(text2))
             distance == levenshtein_distance(text1, text2)
         IN  Rat(max_len - distance, max_len)

\* a similarity without the complement: distance / max_len
SimilarityOf_NoComplement(dist, len) == FloatDiv(dist, len)

\* similarity = 1.0 - (distance / max_len)
SimilarityOf(dist, len) == OneMinus(FloatDiv(dist, len))

\* the double calculate_text_similarity returns
calculate_text_similarity_double(text1, text2) ==
    IF text1 = <<>> /\ text2 = <<>> THEN DoubleOne
    ELSE IF text1 = <<>> \/ text2 = <<>> THEN DoubleZero
    ELSE LET max_len == Max(Len(text1), Len(text2))
         IN  IF max_len = 0 THEN DoubleOne
             ELSE SimilarityOf(levenshtein_distance(text1, text2), max_len)

InitSimilarity ==
    /\ sim_text1 \in SimTexts
    /\ sim_text2 \in SimTexts
    /\ sim_max_len = 0
    /\ sim_distance = 0
    /\ sim_return = <<>>
    /\ sim_pc = "call"
    /\ MergeIdle
    /\ VideoIdle

\* two empty texts answered with 0.0
ReturnBothEmpty_Zero ==
    /\ sim_pc = "call"
    /\ sim_text1 = <<>> /\ sim_text2 = <<>>
    /\ sim_return' = DoubleZero
    /\ sim_pc' = "done"
    /\ UNCHANGED <<sim_text1, sim_text2, sim_max_len, sim_distance>>
    /\ UNCHANGED <<mergeVars, videoVars>>

\* if not text1 and not text2: return 1.0
ReturnBothEmpty ==
    /\ sim_pc = "call"
    /\ sim_text1 = <<>> /\ sim_text2 = <<>>
    /\ sim_return' = DoubleOne
    /\ sim_pc' = "done"
    /\ UNCHANGED <<sim_text1, sim_text2, sim_max_len, sim_distance>>
    /\ UNCHANGED <<mergeVars, videoVars>>

\* one empty text answered with 1.0
ReturnOneEmpty_One ==
    /\ sim_pc = "call"
    /\ ~(sim_text1 = <<>> /\ sim_text2 = <<>>)
    /\ sim_text1 = <<>> \/ sim_text2 = <<>>
    /\ sim_return' = DoubleOne
    /\ sim_pc' = "done"
    /\ UNCHANGED <<sim_text1, sim_text2, sim_max_len, sim_distance>>
    /\ UNCHANGED <<mergeVars, videoVars>>

\* if not text1 or not text2: return 0.0
ReturnOneEmpty ==
    /\ sim_pc = "call"
    /\ ~(sim_text1 = <<>> /\ sim_text2 = <<>>)
    /\ sim_text1 = <<>> \/ sim_text2 = <<>>
    /\ sim_return' = DoubleZero
    /\ sim_pc' = "done"
    /\ UNCHANGED <<sim_text1, sim_text2, sim_max_len, sim_distance>>
    /\ UNCHANGED <<mergeVars, videoVars>>

\* max_len, distance, and the similarity returned (max_len == 0 cannot happen
\* here: both texts have a character)
ReturnSimilarity ==
    /\ sim_pc = "call"
    /\ sim_text1 # <<>> /\ sim_text2 # <<>>
    /\ sim_max_len' = Max(Len(sim_text1), Len(sim_text2))
    /\ IF sim_max_len' = 0
       THEN /\ sim_return' = DoubleOne
            /\ UNCHANGED sim_distance
       ELSE /\ sim_distance' = levenshtein_distance(sim_text1, sim_text2)
            /\ sim_return' = SimilarityOf(sim_distance', sim_max_len')
    /\ sim_pc' = "done"
    /\ UNCHANGED <<sim_text1, sim_text2>>
    /\ UNCHANGED <<mergeVars, videoVars>>

NextSimilarity ==
    \/ ReturnBothEmpty
    \/ ReturnOneEmpty
    \/ ReturnSimilarity

SpecSimilarity == InitSimilarity /\ [][NextSimilarity]_vars

-----------------------------------------------------------------------------
(* merge_ocr_results *)

None == <<>>

\* a group created with a frame count of 0
NewGroup_ZeroCount(t, ts) ==
    [text |-> t, start_time |-> ts, end_time |-> ts, frame_count |-> 0,
     texts |-> <<t>>]

\* a group created with the end time left at 0
NewGroup_NoEndTime(t, ts) ==
    [text |-> t, start_time |-> ts, end_time |-> 0, frame_count |-> 1,
     texts |-> <<t>>]

NewGroup(t, ts) ==
    [text |-> t, start_time |-> ts, end_time |-> ts, frame_count |-> 1,
     texts |-> <<t>>]

\* an extension that forgets to count the frame
ExtendedGroup_NoCount(g, t, ts) ==
    [text        |-> IF Len(t) > Len(g.text) THEN t ELSE g.text,
     start_time  |-> g.start_time,
     end_time    |-> ts,
     frame_count |-> g.frame_count,
     texts       |-> Append(g.texts, t)]

\* an extension that leaves end_time at the first member's timestamp
ExtendedGroup_EndNotMoved(g, t, ts) ==
    [text        |-> IF Len(t) > Len(g.text) THEN t ELSE g.text,
     start_time  |-> g.start_time,
     end_time    |-> g.end_time,
     frame_count |-> g.frame_count + 1,
     texts       |-> Append(g.texts, t)]

\* an extension that replaces the text on equal length too
ExtendedGroup_ReplaceOnTie(g, t, ts) ==
    [text        |-> IF Len(t) >= Len(g.text) THEN t ELSE g.text,
     start_time  |-> g.start_time,
     end_time    |-> ts,
     frame_count |-> g.frame_count + 1,
     texts       |-> Append(g.texts, t)]

\* the group extended by one observation
ExtendedGroup(g, t, ts) ==
    [text        |-> IF Len(t) > Len(g.text) THEN t ELSE g.text,
     start_time  |-> g.start_time,
     end_time    |-> ts,
     frame_count |-> g.frame_count + 1,
     texts       |-> Append(g.texts, t)]

\* the dict appended to merged_results for a group
Emitted(g) ==
    [text |-> g.text, start_time |-> g.start_time, end_time |-> g.end_time,
     frame_count |-> g.frame_count]

\* a merge condition with both bounds exclusive
CanMerge_Strict(diff, sim, window, threshold) ==
    diff < window /\ ~RatGeq(threshold, sim)

\* a merge condition with the similarity bound exclusive
CanMerge_StrictSimilarity(diff, sim, window, threshold) ==
    diff <= window /\ ~RatGeq(threshold, sim)

\* a merge condition that looks at the time only
CanMerge_TimeOnly(diff, sim, window, threshold) ==
    diff <= window

\* the merge condition
CanMerge(diff, sim, window, threshold) ==
    diff <= window /\ RatGeq(sim, threshold)

\* the locals of merge_ocr_results at its entry
EntryOfMerge ==
    /\ sorted_results = <<>>
    /\ idx = 1
    /\ merged_results = <<>>
    /\ current_group = None
    /\ text = <<>>
    /\ timestamp = 0
    /\ time_diff = 0
    /\ similarity = Rat(0, 1)
    /\ pc = "call"

Init ==
    /\ ocr_results \in SeqsUpTo(Observations, MaxObs)
    /\ similarity_threshold \in Thresholds
    /\ time_window \in TimeWindows
    /\ EntryOfMerge
    /\ SimilarityIdle
    /\ VideoIdle

\* an empty list answered with an exception
ReturnEmpty_Raises ==
    /\ pc = "call"
    /\ ocr_results = <<>>
    /\ pc' = "raised"
    /\ UNCHANGED <<ocr_results, similarity_threshold, time_window, sorted_results,
                   idx, merged_results, current_group, text, timestamp,
                   time_diff, similarity>>
    /\ UNCHANGED <<simVars, videoVars>>

\* if not ocr_results: return []
ReturnEmpty ==
    /\ pc = "call"
    /\ ocr_results = <<>>
    /\ pc' = "done"
    /\ UNCHANGED <<ocr_results, similarity_threshold, time_window, sorted_results,
                   idx, merged_results, current_group, text, timestamp,
                   time_diff, similarity>>
    /\ UNCHANGED <<simVars, videoVars>>

\* ocr_results.sort(...) in the place of sorted(...): the argument is sorted too
SortResults_InPlace ==
    /\ pc = "call"
    /\ ocr_results # <<>>
    /\ sorted_results' = SortedByTimestamp(ocr_results)
    /\ ocr_results' = sorted_results'
    /\ merged_results' = <<>>
    /\ current_group' = None
    /\ idx' = 1
    /\ pc' = "loop"
    /\ UNCHANGED <<similarity_threshold, time_window, text,
                   timestamp, time_diff, similarity>>
    /\ UNCHANGED <<simVars, videoVars>>

\* sorted_results = sorted(...); merged_results = []; current_group = None
SortResults ==
    /\ pc = "call"
    /\ ocr_results # <<>>
    /\ sorted_results' = SortedByTimestamp(ocr_results)
    /\ merged_results' = <<>>
    /\ current_group' = None
    /\ idx' = 1
    /\ pc' = "loop"
    /\ UNCHANGED <<ocr_results, similarity_threshold, time_window, text,
                   timestamp, time_diff, similarity>>
    /\ UNCHANGED <<simVars, videoVars>>

InLoop == pc = "loop" /\ idx <= Len(sorted_results)

\* the head of one iteration: text and timestamp of the current result
ReadResult ==
    /\ text' = Strip(sorted_results[idx].text)
    /\ timestamp' = sorted_results[idx].timestamp
    /\ idx' = idx + 1
    /\ UNCHANGED <<ocr_results, similarity_threshold, time_window,
                   sorted_results, pc>>
    /\ UNCHANGED <<simVars, videoVars>>

\* if not text: continue
SkipEmptyText ==
    /\ InLoop
    /\ ReadResult
    /\ text' = <<>>
    /\ UNCHANGED <<merged_results, current_group, time_diff, similarity>>

\* if current_group is None: create the group
CreateFirstGroup ==
    /\ InLoop
    /\ ReadResult
    /\ text' # <<>>
    /\ current_group = None
    /\ current_group' = <<NewGroup(text', timestamp')>>
    /\ UNCHANGED <<merged_results, time_diff, similarity>>

\* else: time_diff and similarity of the current result against the open group
CompareWithGroup ==
    /\ InLoop
    /\ ReadResult
    /\ text' # <<>>
    /\ current_group # None
    /\ time_diff' = timestamp' - current_group[1].end_time
    /\ similarity' = calculate_text_similarity(text', current_group[1].text)

\* the merge condition holds: the result joins the open group
MergeIntoGroup ==
    /\ CompareWithGroup
    /\ CanMerge(time_diff', similarity', time_window, similarity_threshold)
    /\ current_group' = <<ExtendedGroup(current_group[1], text', timestamp')>>
    /\ UNCHANGED merged_results

\* a close that lets the observation join an earlier, closed group of its text
CloseGroupAndStartNew_ReopensClosed ==
    /\ CompareWithGroup
    /\ ~CanMerge(time_diff', similarity', time_window, similarity_threshold)
    /\ LET closed == Append(merged_results, Emitted(current_group[1]))
           match  == { i \in 1 .. Len(merged_results) :
                           /\ merged_results[i].text = text'
                           /\ timestamp' - merged_results[i].end_time <= time_window }
       IN  IF match = {}
           THEN /\ merged_results' = closed
                /\ current_group' = <<NewGroup(text', timestamp')>>
           ELSE /\ merged_results' =
                       [closed EXCEPT ![CHOOSE i \in match : TRUE] =
                            [@ EXCEPT !.end_time = timestamp',
                                      !.frame_count = @ + 1]]
                /\ current_group' = None

\* otherwise: the open group is appended and a new one is created
CloseGroupAndStartNew ==
    /\ CompareWithGroup
    /\ ~CanMerge(time_diff', similarity', time_window, similarity_threshold)
    /\ merged_results' = Append(merged_results, Emitted(current_group[1]))
    /\ current_group' = <<NewGroup(text', timestamp')>>

\* after the loop: if current_group: append it; return merged_results
AppendLastGroup ==
    /\ pc = "loop"
    /\ idx > Len(sorted_results)
    /\ merged_results' = IF current_group # None
                         THEN Append(merged_results, Emitted(current_group[1]))
                         ELSE merged_results
    /\ pc' = "done"
    /\ UNCHANGED <<ocr_results, similarity_threshold, time_window, sorted_results,
                   idx, current_group, text, timestamp, time_diff, similarity>>
    /\ UNCHANGED <<simVars, videoVars>>

\* the loop body as a function of (merged_results, current_group) and one result
ScanStep(st, result, threshold, window) ==
    LET t  == Strip(result.text)
        ts == result.timestamp
    IN  IF t = <<>> THEN st
        ELSE IF st.group = None
        THEN [merged |-> st.merged, group |-> <<NewGroup(t, ts)>>]
        ELSE LET g    == st.group[1]
                 diff == ts - g.end_time
                 sim  == calculate_text_similarity(t, g.text)
             IN  IF CanMerge(diff, sim, window, threshold)
                 THEN [merged |-> st.merged,
                       group  |-> <<ExtendedGroup(g, t, ts)>>]
                 ELSE [merged |-> Append(st.merged, Emitted(g)),
                       group  |-> <<NewGroup(t, ts)>>]

\* the loop over the first n results of s
RECURSIVE Scan(_, _, _, _)
Scan(s, n, threshold, window) ==
    IF n = 0 THEN [merged |-> <<>>, group |-> None]
    ELSE ScanStep(Scan(s, n - 1, threshold, window), s[n], threshold, window)

\* the value merge_ocr_results returns
merge_ocr_results(results, threshold, window) ==
    IF results = <<>> THEN <<>>
    ELSE LET st == Scan(SortedByTimestamp(results), Len(results), threshold, window)
         IN  IF st.group # None THEN Append(st.merged, Emitted(st.group[1]))
             ELSE st.merged

Next ==
    \/ ReturnEmpty
    \/ SortResults
    \/ SkipEmptyText
    \/ CreateFirstGroup
    \/ MergeIntoGroup
    \/ CloseGroupAndStartNew
    \/ AppendLastGroup

Spec == Init /\ [][Next]_vars

\* parameters outside the contract (threshold in [0,1], window >= 0): the
\* function has no check of them, so the call runs as with any other values
OutOfContractParameters ==
    { <<Rat(3, 2), 1>>, <<Rat(-1, 2), 1>>, <<Rat(1, 2), -1>> }

InitOutOfContract ==
    /\ ocr_results \in SeqsUpTo(Observations, MaxObs)
    /\ \E p \in OutOfContractParameters :
           /\ similarity_threshold = p[1]
           /\ time_window = p[2]
    /\ EntryOfMerge
    /\ SimilarityIdle
    /\ VideoIdle

SpecOutOfContract == InitOutOfContract /\ [][Next]_vars

\* the calls whose argument is compared with its reorderings: a blank text and
\* two texts that are similar at the threshold 1/2 and dissimilar at 1
ReorderedTexts == { <<" ">>, <<" ", "a", "b", " ">>, <<"a", "x">> }

InitReordered ==
    /\ ocr_results \in SeqsUpTo([text : ReorderedTexts, timestamp : Timestamps],
                                 MaxObs)
    /\ similarity_threshold \in Thresholds
    /\ time_window \in TimeWindows
    /\ EntryOfMerge
    /\ SimilarityIdle
    /\ VideoIdle

SpecReordered == InitReordered /\ [][Next]_vars

-----------------------------------------------------------------------------
(* video_process, POST: the requests for one video *)

NumRequests == 2
MaxClock == 2

Requests == 1 .. NumRequests

\* what process_video_ocr returns as content, and what str(e) is when it raises
OcrContents == { "text A", "text B" }

OcrErrors == { "error" }

\* the row VideoFile.objects.create(..., status='uploaded') leaves: the other
\* fields are null
UploadedVideo ==
    [status |-> "uploaded", error_message |-> None, ocr_text_summary |-> None,
     processed_at |-> None]

InitVideo ==
    /\ db_video = UploadedVideo
    /\ req_pc = [r \in Requests |-> "idle"]
    /\ req_video = [r \in Requests |-> None]
    /\ req_response = [r \in Requests |-> 0]
    /\ now = 0
    /\ MergeIdle
    /\ SimilarityIdle

\* video = get_object_or_404(VideoFile, id=video_id): the row as it is now
LoadVideo(r) ==
    /\ req_pc[r] = "idle"
    /\ req_video' = [req_video EXCEPT ![r] = <<db_video>>]
    /\ req_pc' = [req_pc EXCEPT ![r] = "gate"]
    /\ req_response' = [req_response EXCEPT ![r] = 0]
    /\ UNCHANGED <<db_video, now>>
    /\ UNCHANGED <<mergeVars, simVars>>

\* a gate that lets every request pass
PassesGate_Always(video) == TRUE

\* the test of the gate on the instance the request loaded
PassesGate(video) == video.status # "processing"

\* if video.status == 'processing': return JsonResponse(..., status=400)
RejectWhileProcessing(r) ==
    /\ req_pc[r] = "gate"
    /\ ~PassesGate(req_video[r][1])
    /\ req_response' = [req_response EXCEPT ![r] = 400]
    /\ req_pc' = [req_pc EXCEPT ![r] = "returned"]
    /\ UNCHANGED <<db_video, req_video, now>>
    /\ UNCHANGED <<mergeVars, simVars>>

\* a start of the job that leaves the error message of an earlier failure
MarkProcessing_KeepsError(r) ==
    /\ req_pc[r] = "gate"
    /\ PassesGate(req_video[r][1])
    /\ LET video == [req_video[r][1] EXCEPT !.status = "processing"]
       IN  /\ req_video' = [req_video EXCEPT ![r] = <<video>>]
           /\ db_video' = video
    /\ req_pc' = [req_pc EXCEPT ![r] = "ocr"]
    /\ UNCHANGED <<req_response, now>>
    /\ UNCHANGED <<mergeVars, simVars>>

\* video.status = 'processing'; video.error_message = None; video.save()
\* (save() writes every field of the instance)
MarkProcessing(r) ==
    /\ req_pc[r] = "gate"
    /\ PassesGate(req_video[r][1])
    /\ LET video == [req_video[r][1] EXCEPT !.status = "processing",
                                            !.error_message = None]
       IN  /\ req_video' = [req_video EXCEPT ![r] = <<video>>]
           /\ db_video' = video
    /\ req_pc' = [req_pc EXCEPT ![r] = "ocr"]
    /\ UNCHANGED <<req_response, now>>
    /\ UNCHANGED <<mergeVars, simVars>>

\* process_video_ocr returned: summary, 'completed', processed_at, save()
CompleteProcessing(r) ==
    /\ req_pc[r] = "ocr"
    /\ now < MaxClock
    /\ \E content \in OcrContents :
           LET video == [req_video[r][1] EXCEPT !.ocr_text_summary = <<content>>,
                                                !.status = "completed",
                                                !.processed_at = <<now>>]
           IN  /\ req_video' = [req_video EXCEPT ![r] = <<video>>]
               /\ db_video' = video
    /\ now' = now + 1
    /\ req_response' = [req_response EXCEPT ![r] = 200]
    /\ req_pc' = [req_pc EXCEPT ![r] = "returned"]
    /\ UNCHANGED <<mergeVars, simVars>>

\* a handler that answers 500 and writes nothing
FailProcessing_NothingSaved(r) ==
    /\ req_pc[r] = "ocr"
    /\ req_response' = [req_response EXCEPT ![r] = 500]
    /\ req_pc' = [req_pc EXCEPT ![r] = "returned"]
    /\ UNCHANGED <<db_video, req_video, now>>
    /\ UNCHANGED <<mergeVars, simVars>>

\* except Exception as e: 'failed', error_message = str(e), save()
FailProcessing(r) ==
    /\ req_pc[r] = "ocr"
    /\ \E message \in OcrErrors :
           LET video == [req_video[r][1] EXCEPT !.status = "failed",
                                                !.error_message = <<message>>]
           IN  /\ req_video' = [req_video EXCEPT ![r] = <<video>>]
               /\ db_video' = video
    /\ req_response' = [req_response EXCEPT ![r] = 500]
    /\ req_pc' = [req_pc EXCEPT ![r] = "returned"]
    /\ UNCHANGED now
    /\ UNCHANGED <<mergeVars, simVars>>

\* the next POST handled by the same worker
NextRequest(r) ==
    /\ req_pc[r] = "returned"
    /\ req_pc' = [req_pc EXCEPT ![r] = "idle"]
    /\ req_video' = [req_video EXCEPT ![r] = None]
    /\ UNCHANGED <<db_video, req_response, now>>
    /\ UNCHANGED <<mergeVars, simVars>>

NextVideo ==
    \E r \in Requests :
        \/ LoadVideo(r)
        \/ RejectWhileProcessing(r)
        \/ MarkProcessing(r)
        \/ CompleteProcessing(r)
        \/ FailProcessing(r)
        \/ NextRequest(r)

SpecVideo == InitVideo /\ [][NextVideo]_vars

\* POSTs that do not overlap: a request is loaded only when no other request
\* is between its load and its response
NoRequestInProgress == \A r \in Requests : req_pc[r] \in { "idle", "returned" }

\* (no request loads the status 'processing' then, so the gate rejects none)
NextVideoSerial ==
    \E r \in Requests :
        \/ NoRequestInProgress /\ LoadVideo(r)
        \/ MarkProcessing(r)
        \/ CompleteProcessing(r)
        \/ FailProcessing(r)
        \/ NextRequest(r)

SpecVideoSerial == InitVideo /\ [][NextVideoSerial]_vars

-----------------------------------------------------------------------------
(* Vocabulary of the properties *)

\* a text that is empty or consists of whitespace only
IsBlank(t) == \A i \in 1 .. Len(t) : t[i] \in Whitespace

\* u is t without its leading and trailing whitespace
IsTrimOf(u, t) ==
    \E i \in 0 .. Len(t) :
        /\ i + Len(u) <= Len(t)
        /\ SubSeq(t, i + 1, i + Len(u)) = u
        /\ \A k \in 1 .. i : t[k] \in Whitespace
        /\ \A k \in (i + Len(u) + 1) .. Len(t) : t[k] \in Whitespace
        /\ u # <<>> => (u[1] \notin Whitespace /\ u[Len(u)] \notin Whitespace)

\* the positions of the observations of s that are not blank
NonBlankAt(s) == { i \in 1 .. Len(s) : ~IsBlank(s[i].text) }

\* s without its blank observations
WithoutBlanks(s) == SelectSeq(s, LAMBDA o : ~IsBlank(o.text))

RECURSIVE SumFrameCount(_)
SumFrameCount(rs) ==
    IF rs = <<>> THEN 0 ELSE rs[1].frame_count + SumFrameCount(Tail1(rs))

\* the results emitted so far, and the open group if there is one
Groups ==
    { merged_results[i] : i \in 1 .. Len(merged_results) } \cup
    { Emitted(current_group[i]) : i \in 1 .. Len(current_group) }

Returned == pc = "done"

-----------------------------------------------------------------------------
(* Properties of merge_ocr_results *)

\* C1: the frame counts of the returned results add up to the number of input
\* observations whose text is not blank: none is dropped, none counted twice.
C1_FrameCountsSumToNonBlank ==
    Returned =>
        SumFrameCount(merged_results) = Cardinality(NonBlankAt(ocr_results))

\* two observations merged into one result, and a blank one beside them
C1_Witness ==
    /\ Returned
    /\ \E i \in 1 .. Len(merged_results) : merged_results[i].frame_count = 2
    /\ Len(ocr_results) > Cardinality(NonBlankAt(ocr_results))

C3_StartTimesNonDecreasing ==
    Returned =>
        \A i \in 1 .. Len(merged_results) - 1 :
            merged_results[i].start_time <= merged_results[i + 1].start_time

\* an input given latest first, returned as three results
C3_Witness ==
    /\ Returned
    /\ Len(merged_results) = 3
    /\ Len(ocr_results) = 3
    /\ ocr_results[1].timestamp > ocr_results[2].timestamp
    /\ ocr_results[2].timestamp > ocr_results[3].timestamp
    /\ merged_results[1].start_time < merged_results[3].start_time

\* C4: a blank observation opens no group and is counted in no frame count;
\* no result has a blank text, and every text of a result is the trimmed
\* text of an input observation.
C4_BlankObservationsExcluded ==
    /\ \A g \in Groups :
           /\ ~IsBlank(g.text)
           /\ \E i \in 1 .. Len(ocr_results) : IsTrimOf(g.text, ocr_results[i].text)
    /\ pc = "loop" =>
           /\ (current_group = None) <=>
                  (NonBlankAt(SubSeq(sorted_results, 1, idx - 1)) = {})
           /\ SumFrameCount(merged_results)
                  + (IF current_group = None THEN 0 ELSE current_group[1].frame_count)
              = Cardinality(NonBlankAt(SubSeq(sorted_results, 1, idx - 1)))

\* a blank observation scanned first, then a padded text returned trimmed
C4_Witness ==
    /\ Returned
    /\ Len(sorted_results) >= 2
    /\ IsBlank(sorted_results[1].text)
    /\ sorted_results[1].text # <<>>
    /\ \E i \in 1 .. Len(ocr_results) : ocr_results[i].text = <<>>
    /\ Len(merged_results) = 1
    /\ merged_results[1].text = <<"a", "b">>
    /\ merged_results[1].frame_count = 1
\* C5: blank observations are transparent: the call returns what it returns
\* for the same list without its blank observations, so a blank observation
\* between two matching ones neither splits their group nor moves its end_time.
C5_BlanksAreTransparent ==
    Returned =>
        merged_results = merge_ocr_results(WithoutBlanks(ocr_results),
                                           similarity_threshold, time_window)

\* a blank observation strictly between two observations that end in one group
C5_Witness ==
    /\ Returned
    /\ Len(sorted_results) = 3
    /\ IsBlank(sorted_results[2].text)
    /\ sorted_results[1].timestamp < sorted_results[2].timestamp
    /\ sorted_results[2].timestamp < sorted_results[3].timestamp
    /\ Len(merged_results) = 1
    /\ merged_results[1].frame_count = 2
    /\ merged_results[1].end_time = sorted_results[3].timestamp

\* C6: every result, and the open group, has start_time <= end_time.
C6_StartNotAfterEnd ==
    \A g \in Groups : g.start_time <= g.end_time

\* a result that spans more than one timestamp, from an input given out of order
C6_Witness ==
    /\ Returned
    /\ ocr_results # sorted_results
    /\ \E i \in 1 .. Len(merged_results) :
           merged_results[i].start_time < merged_results[i].end_time

\* C7: every result, and the open group, has frame_count >= 1.
C7_FrameCountPositive ==
    \A g \in Groups : g.frame_count >= 1

\* a result of one frame next to a result of two
C7_Witness ==
    /\ Returned
    /\ Len(merged_results) = 2
    /\ merged_results[1].frame_count = 1
    /\ merged_results[2].frame_count = 2

\* the observations all carry one text and lie within time_window of each other
SameTextWithinWindow ==
    /\ ocr_results # <<>>
    /\ \A i, j \in 1 .. Len(ocr_results) :
           /\ ocr_results[i].text = ocr_results[j].text
           /\ ocr_results[i].timestamp - ocr_results[j].timestamp <= time_window

\* C8 as stated: observations of one text within time_window of each other
\* give exactly one result, whose frame_count is their number.
C8_AsStated ==
    (Returned /\ SameTextWithinWindow) =>
        /\ Len(merged_results) = 1
        /\ merged_results[1].frame_count = Len(ocr_results)

\* C8 amended: the same, for a text that is not blank.
C8_SameTextOneResult ==
    (Returned /\ SameTextWithinWindow /\ ~IsBlank(ocr_results[1].text)) =>
        /\ Len(merged_results) = 1
        /\ merged_results[1].frame_count = Len(ocr_results)

\* three observations of one text, the outer ones a full window apart
C8_Witness ==
    /\ Returned
    /\ SameTextWithinWindow
    /\ ~IsBlank(ocr_results[1].text)
    /\ Len(ocr_results) = 3
    /\ \E i, j \in 1 .. 3 :
           ocr_results[i].timestamp - ocr_results[j].timestamp = time_window
    /\ RatEq(similarity_threshold, Rat(1, 1))
    /\ merged_results[1].frame_count = 3

\* every two non-blank observations have trimmed texts of similarity below
\* the threshold
PairwiseDissimilar ==
    \A i, j \in NonBlankAt(ocr_results) :
        i # j =>
            ~RatGeq(calculate_text_similarity(Strip(ocr_results[i].text),
                                              Strip(ocr_results[j].text)),
                    similarity_threshold)

\* C9: when the non-blank observations are pairwise dissimilar, each becomes
\* a result of its own, of one frame, however close the timestamps are.
C9_DissimilarNeverMerge ==
    (Returned /\ PairwiseDissimilar) =>
        /\ Len(merged_results) = Cardinality(NonBlankAt(ocr_results))
        /\ \A i \in 1 .. Len(merged_results) : merged_results[i].frame_count = 1

\* three dissimilar observations at one timestamp, returned as three results
C9_Witness ==
    /\ Returned
    /\ PairwiseDissimilar
    /\ Len(ocr_results) = 3
    /\ \A i \in 1 .. 3 : ocr_results[i].timestamp = ocr_results[1].timestamp
    /\ Len(merged_results) = 3

\* C10 as stated: one non-blank observation gives one result that carries the
\* observation's text, its timestamp as start_time and end_time, and one frame.
C10_AsStated ==
    (Returned /\ Cardinality(NonBlankAt(ocr_results)) = 1) =>
        LET o == ocr_results[CHOOSE i \in NonBlankAt(ocr_results) : TRUE]
        IN  merged_results = << [text |-> o.text, start_time |-> o.timestamp,
                                 end_time |-> o.timestamp, frame_count |-> 1] >>

\* C10 amended: the result carries the observation's text without its leading
\* and trailing whitespace.
C10_SingleObservation ==
    (Returned /\ Cardinality(NonBlankAt(ocr_results)) = 1) =>
        LET o == ocr_results[CHOOSE i \in NonBlankAt(ocr_results) : TRUE]
        IN  /\ Len(merged_results) = 1
            /\ IsTrimOf(merged_results[1].text, o.text)
            /\ merged_results[1].start_time = o.timestamp
            /\ merged_results[1].end_time = o.timestamp
            /\ merged_results[1].frame_count = 1

\* a padded observation at a later timestamp, alone among blank ones
C10_Witness ==
    /\ Returned
    /\ Cardinality(NonBlankAt(ocr_results)) = 1
    /\ Len(ocr_results) = 3
    /\ Len(merged_results) = 1
    /\ merged_results[1].text = <<"a", "b">>
    /\ merged_results[1].start_time = 2
\* C11: called with the empty list, merge_ocr_results returns the empty list
\* and raises nothing, whatever the threshold and the window.
C11_EmptyInEmptyOut ==
    ocr_results = <<>> =>
        \/ pc = "call"
        \/ pc = "done" /\ merged_results = <<>>

C11_Witness ==
    /\ Returned
    /\ ocr_results = <<>>
    /\ merged_results = <<>>
    /\ sorted_results = <<>>

\* the parameters meet the contract of merge_ocr_results
InContract ==
    /\ RatGeq(similarity_threshold, Rat(0, 1))
    /\ RatGeq(Rat(1, 1), similarity_threshold)
    /\ time_window >= 0

\* C12 as stated: with a threshold outside [0,1] or a negative window the
\* call does not return a list of results (it signals a failure).
C12_AsStated ==
    ~InContract => ~(Returned /\ merged_results # <<>>)

\* the non-blank observations in the order of the scan
Scanned == WithoutBlanks(sorted_results)

\* the trimmed texts a and b are similar at the threshold of the call
Similar(a, b) ==
    RatGeq(calculate_text_similarity(a, b), similarity_threshold)

\* a run of similar observations: every two non-blank observations are
\* similar and every consecutive gap is at most time_window
RunOfSimilar ==
    /\ Scanned # <<>>
    /\ \A i \in 1 .. Len(Scanned) - 1 :
           Scanned[i + 1].timestamp - Scanned[i].timestamp <= time_window
    /\ \A i, j \in 1 .. Len(Scanned) :
           Similar(Strip(Scanned[i].text), Strip(Scanned[j].text))

\* C21: the time gate is anchored on the open group's end_time: a run of
\* similar observations whose consecutive gaps are at most time_window is
\* returned as one result, from the first timestamp to the last, also when
\* that span exceeds time_window.
C21_GateAnchoredOnEndTime ==
    (Returned /\ RunOfSimilar) =>
        /\ Len(merged_results) = 1
        /\ merged_results[1].start_time = Scanned[1].timestamp
        /\ merged_results[1].end_time = Scanned[Len(Scanned)].timestamp
        /\ merged_results[1].frame_count = Len(Scanned)

\* one result that spans more than time_window
C21_Witness ==
    /\ Returned
    /\ RunOfSimilar
    /\ Len(merged_results) = 1
    /\ merged_results[1].frame_count = 3
    /\ merged_results[1].end_time - merged_results[1].start_time > time_window

\* the first of the longest texts of a non-empty sequence of texts
FirstLongest(ts) ==
    ts[CHOOSE i \in 1 .. Len(ts) :
           /\ \A j \in 1 .. Len(ts) : Len(ts[j]) <= Len(ts[i])
           /\ \A j \in 1 .. i - 1 : Len(ts[j]) < Len(ts[i])]

\* the trimmed texts of the observations merged into the k-th result: the
\* results take the scanned observations in order, frame_count each
MembersOf(k) ==
    LET before == SumFrameCount(SubSeq(merged_results, 1, k - 1))
    IN  [i \in 1 .. merged_results[k].frame_count |->
             Strip(Scanned[before + i].text)]

\* C22: the text of a result, and of the open group, is the longest trimmed
\* text among the observations merged into it, and among several of that
\* length the first in the order of the scan.
C22_TextIsFirstLongest ==
    /\ current_group # None =>
           current_group[1].text = FirstLongest(current_group[1].texts)
    /\ Returned =>
           \A k \in 1 .. Len(merged_results) :
               merged_results[k].text = FirstLongest(MembersOf(k))

\* two different texts of the maximum length in one result: the first is kept
C22_Witness ==
    /\ Returned
    /\ \E k \in 1 .. Len(merged_results) :
           /\ merged_results[k].frame_count >= 2
           /\ MembersOf(k)[1] # MembersOf(k)[2]
           /\ Len(MembersOf(k)[1]) = Len(MembersOf(k)[2])
           /\ merged_results[k].text = MembersOf(k)[1]

\* C23: a result appended to merged_results is never changed again, and an
\* observation that does not match the open group opens a new group, also
\* when it matches a closed one: it is compared with the open group only.
C23_ClosedGroupsAreFinal ==
    [][ /\ Len(merged_results') >= Len(merged_results)
        /\ SubSeq(merged_results', 1, Len(merged_results)) = merged_results
        /\ (/\ InLoop
            /\ current_group # None
            /\ ~IsBlank(sorted_results[idx].text)
            /\ ~CanMerge(sorted_results[idx].timestamp - current_group[1].end_time,
                         calculate_text_similarity(Strip(sorted_results[idx].text),
                                                   current_group[1].text),
                         time_window, similarity_threshold)) =>
               /\ Len(merged_results') = Len(merged_results) + 1
               /\ Emitted(current_group'[1]) =
                      [text        |-> Strip(sorted_results[idx].text),
                       start_time  |-> sorted_results[idx].timestamp,
                       end_time    |-> sorted_results[idx].timestamp,
                       frame_count |-> 1] ]_vars

\* A, B, A with A and B dissimilar: the second A is within time_window of the
\* first result's end_time and still is a result of its own
C23_Witness ==
    /\ Returned
    /\ Len(merged_results) = 3
    /\ merged_results[1].text = merged_results[3].text
    /\ merged_results[3].start_time - merged_results[1].end_time <= time_window
    /\ ~Similar(merged_results[2].text, merged_results[1].text)
    /\ \A k \in 1 .. 3 : merged_results[k].frame_count = 1

\* the permutations of 1 .. n
Orders(n) ==
    { p \in [1 .. n -> 1 .. n] : \A i, j \in 1 .. n : i # j => p[i] # p[j] }

\* the list s in the order p
Reordered(s, p) == [i \in 1 .. Len(s) |-> s[p[i]]]

\* the lists that differ from s only in the relative order of observations
\* sharing a timestamp
TieReorderings(s) ==
    { Reordered(s, p) :
          p \in { q \in Orders(Len(s)) :
                      \A i \in 1 .. Len(s) : s[q[i]].timestamp = s[i].timestamp } }

\* the non-blank observations of s that share a timestamp have one trimmed text
TiesAgree(s) ==
    \A i, j \in NonBlankAt(s) :
        s[i].timestamp = s[j].timestamp => Strip(s[i].text) = Strip(s[j].text)

DistinctTimestamps(s) ==
    \A i, j \in 1 .. Len(s) : i # j => s[i].timestamp # s[j].timestamp

\* C25: for a list of pairwise distinct timestamps every permutation of the
\* list gives the same output.
C25_PermutationInvariant ==
    (Returned /\ DistinctTimestamps(ocr_results)) =>
        \A p \in Orders(Len(ocr_results)) :
            merge_ocr_results(Reordered(ocr_results, p),
                              similarity_threshold, time_window) = merged_results

\* three observations of distinct timestamps given latest first
C25_Witness ==
    /\ Returned
    /\ DistinctTimestamps(ocr_results)
    /\ Len(ocr_results) = 3
    /\ ocr_results[1].timestamp = 2
    /\ ocr_results[3].timestamp = 0
    /\ Len(merged_results) = 2
    /\ merged_results[1].start_time = 0

\* C26: the call leaves its argument as it was: the same observations in the
\* same order, with the same text and timestamp.
C26_ArgumentUnchanged ==
    [][ocr_results' = ocr_results]_vars

\* returned from an argument that is neither sorted nor trimmed
C26_Witness ==
    /\ Returned
    /\ ocr_results # sorted_results
    /\ \E i \in NonBlankAt(ocr_results) :
           ocr_results[i].text # Strip(ocr_results[i].text)
    /\ merged_results # <<>>

\* C30: the time ranges of consecutive results do not overlap (the end_time
\* of a result is at most the start_time of the next, and of the open group),
\* and the time difference of no match test is negative.
C30_RangesDoNotOverlap ==
    /\ \A i \in 1 .. Len(merged_results) - 1 :
           merged_results[i].end_time <= merged_results[i + 1].start_time
    /\ (pc = "loop" /\ current_group # None /\ merged_results # <<>>) =>
           merged_results[Len(merged_results)].end_time
               <= current_group[1].start_time
    /\ time_diff >= 0

\* an input given latest first: a result of two timestamps, then one that
\* starts where it ends
C30_Witness ==
    /\ Returned
    /\ ocr_results # sorted_results
    /\ Len(merged_results) = 2
    /\ merged_results[1].start_time < merged_results[1].end_time
    /\ merged_results[1].end_time = merged_results[2].start_time
    /\ time_diff = 0

-----------------------------------------------------------------------------
(* Properties of video_process *)

\* the requests whose job is in flight: 'processing' saved, final save pending
InFlight == { r \in DOMAIN req_pc : req_pc[r] = "ocr" }

\* C13 as stated: at most one processing job of the video is in flight at any
\* time, also when the POST requests interleave between the test of the
\* status and the write of 'processing'.
C13_AsStated ==
    Cardinality(InFlight) <= 1

\* C27: a POST that finds the status 'processing' on the video it loaded is
\* answered with 400, writes no field of the video and starts no OCR call.
C27_RejectedWhileProcessing ==
    [][ \A r \in Requests :
            (/\ req_pc[r] = "gate"
             /\ req_video[r][1].status = "processing"
             /\ req_pc'[r] # "gate") =>
                /\ req_pc'[r] = "returned"
                /\ req_response'[r] = 400
                /\ db_video' = db_video ]_vars

\* a request answered with 400 while the job of another is in flight
C27_Witness ==
    \E r, q \in Requests :
        /\ req_pc[r] = "returned"
        /\ req_response[r] = 400
        /\ req_pc[q] = "ocr"
        /\ db_video.status = "processing"

-----------------------------------------------------------------------------
(* Properties of calculate_text_similarity *)

SimReturned == sim_pc = "done"

\* the number of members of S up to i
Rank(S, i) == Cardinality({ j \in S : j <= i })

\* the characters of a at I kept or substituted into those of b at J, in order
Aligned(I, J) == { p \in I \X J : Rank(I, p[1]) = Rank(J, p[2]) }

\* the edits of one alignment: the other characters of a are deleted, the
\* other characters of b inserted, the aligned pairs that differ substituted
AlignmentCost(a, b, I, J) ==
    (Len(a) - Cardinality(I)) + (Len(b) - Cardinality(J)) +
    Cardinality({ p \in Aligned(I, J) : a[p[1]] # b[p[2]] })

\* the Levenshtein distance by its definition: the least number of
\* single-character insertions, deletions and substitutions turning a into b
EditDistance(a, b) ==
    LET costs == UNION { { AlignmentCost(a, b, I, J) :
                               J \in { K \in SUBSET (1 .. Len(b)) :
                                           Cardinality(K) = Cardinality(I) } } :
                         I \in SUBSET (1 .. Len(a)) }
    IN  CHOOSE c \in costs : \A d \in costs : c <= d

\* the double after x, for a positive x
NextUp(x) ==
    LET up == Increment(x.bits)
    IN  IF up[1] = 1
        THEN [neg |-> FALSE, exp |-> x.exp + 1,
              bits |-> <<1>> \o Zeros(Precision - 1)]
        ELSE [neg |-> FALSE, exp |-> x.exp, bits |-> Tail1(up)]

\* C14: a text, the empty one included, has similarity 1.0 to itself.
C14_IdenticalTextsOne ==
    (SimReturned /\ sim_text1 = sim_text2) => sim_return = DoubleOne

C14_Witness ==
    /\ SimReturned
    /\ sim_text1 = Hello
    /\ sim_text2 = Hello
    /\ sim_distance = 0
    /\ sim_return = DoubleOne

\* C15: the similarity of a and b is the similarity of b and a.
C15_Symmetric ==
    SimReturned =>
        sim_return = calculate_text_similarity_double(sim_text2, sim_text1)

\* two texts of different lengths that differ, neither empty
C15_Witness ==
    /\ SimReturned
    /\ Len(sim_text1) = 1
    /\ Len(sim_text2) = 2
    /\ sim_text2[1] # sim_text1[1]
    /\ sim_return = FloatDiv(1, 2)

\* C16: the similarity lies in [0.0, 1.0]; the distance is at most the length
\* of the longer text.
C16_WithinUnitInterval ==
    SimReturned =>
        /\ DoubleGeq(sim_return, DoubleZero)
        /\ DoubleGeq(DoubleOne, sim_return)
        /\ sim_distance <= Max(Len(sim_text1), Len(sim_text2))

\* a short text against a longer one that shares no character with it
C16_Witness ==
    /\ SimReturned
    /\ Len(sim_text1) < Len(sim_text2)
    /\ sim_text1 # <<>>
    /\ sim_distance = Len(sim_text2)
    /\ sim_return = DoubleZero

\* C17: two empty texts have similarity 1.0; an empty and a non-empty text
\* have similarity 0.0, in either order.
C17_EmptyTexts ==
    SimReturned =>
        /\ (sim_text1 = <<>> /\ sim_text2 = <<>>) => sim_return = DoubleOne
        /\ (sim_text1 = <<>> /\ sim_text2 # <<>>) => sim_return = DoubleZero
        /\ (sim_text1 # <<>> /\ sim_text2 = <<>>) => sim_return = DoubleZero

C17_Witness ==
    /\ SimReturned
    /\ sim_text1 = Hello
    /\ sim_text2 = <<>>
    /\ sim_return = DoubleZero

\* C18: for two non-empty texts the similarity is 1 - d / max(len(a), len(b)),
\* evaluated in double arithmetic, with d the Levenshtein distance.
C18_OneMinusDistanceOverLength ==
    (SimReturned /\ sim_text1 # <<>> /\ sim_text2 # <<>>) =>
        /\ sim_distance = EditDistance(sim_text1, sim_text2)
        /\ sim_return =
               OneMinus(FloatDiv(EditDistance(sim_text1, sim_text2),
                                 Max(Len(sim_text1), Len(sim_text2))))

\* one substitution in five characters
C18_Witness ==
    /\ SimReturned
    /\ sim_text1 = Hello
    /\ sim_text2 = Hallo
    /\ sim_distance = 1
    /\ sim_return = OneMinus(FloatDiv(1, 5))

HelloWorld == sim_text1 = Hello /\ sim_text2 = World

\* C19 as stated: the similarity of "Hello" and "World" is the double 0.2.
C19_AsStated ==
    (SimReturned /\ HelloWorld) => sim_return = FloatDiv(1, 5)

\* C19: the similarity of "Hello" and "World" (distance 4, length 5) is
\* 1.0 - 0.8 in double arithmetic: the second double below 0.2.
C19_HelloWorldNearOneFifth ==
    (SimReturned /\ HelloWorld) =>
        /\ sim_distance = 4
        /\ sim_max_len = 5
        /\ sim_return = OneMinus(FloatDiv(4, 5))
        /\ DoubleLess(sim_return, FloatDiv(1, 5))
        /\ NextUp(NextUp(sim_return)) = FloatDiv(1, 5)

C19_Witness ==
    /\ SimReturned
    /\ HelloWorld
    /\ sim_return # FloatDiv(1, 5)
    /\ DoubleGeq(sim_return, FloatDiv(1, 8))

\* C20 as stated: the similarity of "Hello" and "World" is 0.0, as the
\* example in the docstring says.
C20_AsStated ==
    (SimReturned /\ HelloWorld) => sim_return = DoubleZero

====
